---- MODULE Spec2Model ----
(***************************************************************************)
(* Model of delegates/motordriveconsumption.py: the MotorDriveConsumption  *)
(* delegate, which estimates Wh/km from GPS fixes and motor drive power.   *)
(*                                                                         *)
(* Numbers.  The Python code computes in floating point; the model computes*)
(* in integers with these units:                                           *)
(*   distance   centimetres                                                *)
(*   time       milliseconds (as /UtcTime)                                 *)
(*   power      watts                                                      *)
(*   energy     joules (1 Wh = 3600 J), rounded down                       *)
(*   latitude   the arc of 1 cm on the meridian (1 cm / R radians)         *)
(*   exp        fixed point with FixedOne = 1                              *)
(* Speeds and lengths of the source are written in these units             *)
(* (0.3 m/s = 30 cm/s, 37 m = 3700 cm).  Where Python divides floats the   *)
(* model divides integers and rounds down.                                 *)
(*                                                                         *)
(* Positions.  All fixes lie on one meridian (one longitude).  There the   *)
(* source's haversine formula and forward azimuth reduce to closed forms   *)
(* that need no trigonometry; they are derived at the definitions.         *)
(***************************************************************************)
EXTENDS Integers, Sequences, FiniteSets, TLC

\* ------------------------------------------------------------- constants
MINIMUM_SPEED_MS == 30
MAXIMUM_SPEED_MS == 2000
BEARING_CHECK_MINIMUM_DISTANCE_M == 100
BEARING_CHECK_THRESHOLD_DEGREES == 45
POWER_EMA_MS == 3000
WINDOW_SEGMENT_COUNT == 50
WINDOW_SEGMENT_SIZE_M == 3700
\* /UtcTime wraps at one day of milliseconds.
DAY_MS == 86400000

\* ---------------------------------------------------------------- bounds
\* Number of GPS updates processed in one behaviour.
MaxUpdates == 4
\* Number of direct calls of _accumulate in one behaviour of SpecAccumulate.
MaxCalls == 3

\* Values the d-bus can hold.  Times in rising order are 2 s and 1 s before
\* midnight, midnight and 100 s after it: pairs of them give dt of 0 ms, 1 s,
\* 2 s, 100 s, 101 s and 102 s and, taken backwards, of almost a day.
\* Latitudes are 0 m, 20 m and 1900 m (more than the window's 1850 m) along
\* the meridian.
Times == {86398000, 86399000, 0, 100000}
Latitudes == {0, 2000, 190000}
Longitudes == {0}
Powers == {1000, 2000}

\* Python's None and a present value.
None == << >>
Some(v) == << v >>

Abs(x) == IF x < 0 THEN -x ELSE x
Min(a, b) == IF a < b THEN a ELSE b
FixedOne == 10 ^ 4

VARIABLES
  last_point,                          \* None or Some(point)
  last_bearing,                        \* None or Some(degrees)
  is_continuous,
  power_ema,                           \* None or Some(watts)
  consumption_window,                  \* [0..49 -> <<distance, energy>>]
  consumption_window_index,
  consumption_window_total_distance,
  consumption_window_total_energy,
  newvalues,                           \* /MotorDrive/Consumption of the last refresh
  updates,                             \* number of updates processed
  sample,                              \* what the last update read from the d-bus
  dt_ms,                               \* the dt it computed (None on a reset)
  outcome,                             \* what it did with the sample, see Outcome
  previous_outcome,                    \* the outcome of the update before it
  accumulated,                         \* the arguments of its _accumulate call, or None
  calls,                               \* number of direct _accumulate calls (SpecAccumulate)
  dbus,                                \* the values the d-bus holds (SpecDeferred)
  idle_pending,                        \* _on_gps_update callbacks added with idle_add
  writing                              \* the sample the sources are writing to the d-bus

estimator == << last_point, last_bearing, is_continuous, power_ema >>
window == << consumption_window, consumption_window_index,
             consumption_window_total_distance, consumption_window_total_energy >>
history == << updates, sample, dt_ms, outcome, previous_outcome, accumulated, calls >>
bus == << dbus, idle_pending, writing >>
vars == << estimator, window, newvalues, history, bus >>

\* --------------------------------------------------------------- geodesy
\* _haversine_distance_in_meter for two points of equal longitude:
\* delta_lambda = 0, so a = sin(delta_phi/2)^2, c = 2*atan2(sqrt(a), sqrt(1-a))
\* = |delta_phi| and distance = R * |delta_phi|, which in latitude units of
\* 1 cm of arc is |latitude2 - latitude1| centimetres.
haversine_distance_in_meter(point1, point2) ==
  Abs(point2.latitude - point1.latitude)

\* _bearing_between_points for two points of equal longitude:
\* y = sin(0) * cos(phi2) = 0 and x = sin(phi2 - phi1), so atan2(y, x) is
\* 0 when phi2 >= phi1 (atan2(0, 0) = 0) and pi when phi2 < phi1;
\* (degrees + 360) % 360 leaves 0 and 180.
bearing_between_points(point1, point2) ==
  IF point2.latitude < point1.latitude THEN 180 ELSE 0

\* --------------------------------------------------------- power smoother
\* exp(-x) for 0 <= x = r / POWER_EMA_MS <= 1 in fixed point, by its series
\* 1 - x + x^2/2! - x^3/3! + ..., summed until the term vanishes.
RECURSIVE exp_series(_, _, _)
exp_series(r, k, term) ==
  IF term = 0 THEN 0
  ELSE term - exp_series(r, k + 1, (term * r) \div (POWER_EMA_MS * k))

\* exp(-dt / POWER_EMA_MS) in fixed point: exp(-a) = exp(-a/2)^2.
RECURSIVE exp_neg(_)
exp_neg(dt) ==
  IF dt <= POWER_EMA_MS THEN exp_series(dt, 1, FixedOne)
  ELSE LET h == exp_neg(dt \div 2)
           sq == (h * h) \div FixedOne
       IN IF dt % 2 = 0 THEN sq
          ELSE (sq * exp_series(1, 1, FixedOne)) \div FixedOne

\* alpha = 1 - exp(-dt / POWER_EMA_MS)
ema_alpha(dt) == FixedOne - exp_neg(dt)

\* Variant: with dt = 0 the smoother restarts from the raw power.
smoothed_power_restarting(ema, power, dt) ==
  IF ema # None /\ dt # 0
    THEN ema[1] + (ema_alpha(dt) * (power - ema[1])) \div FixedOne
    ELSE power

\* The new power_ema of _calculate_energy_used.
smoothed_power(ema, power, dt) ==
  IF ema # None
    THEN ema[1] + (ema_alpha(dt) * (power - ema[1])) \div FixedOne
    ELSE power

\* power_ema * (dt / 1000.0) / 3600.0 Wh, in joules:
\* floor(p * dt / 1000) = p * (dt div 1000) + floor(p * (dt mod 1000) / 1000).
energy_of(power, dt) ==
  power * (dt \div 1000) + (power * (dt % 1000)) \div 1000

\* _calculate_energy_used: the new power_ema and the energy returned.
calculate_energy_used(ema, power, dt) ==
  LET p == smoothed_power(ema, power, dt)
  IN [power_ema |-> Some(p), energy |-> Some(energy_of(p, dt))]

\* ------------------------------------------------------ continuity filter
\* speed * (dt / 1000.0), rounded down:
\* floor(s * dt / 1000) = s * (dt div 1000) + floor(s * (dt mod 1000) / 1000).
speed_distance(speed, dt) ==
  speed * (dt \div 1000) + (speed * (dt % 1000)) \div 1000

\* distance_raw < distance_min, with distance_min = MINIMUM_SPEED_MS * (dt /
\* 1000.0) compared exactly: an integer is below a fraction when it is below
\* its floor, or equals the floor of a fraction that is not whole.
below_minimum_speed(distance_raw, dt) ==
  LET floor == speed_distance(MINIMUM_SPEED_MS, dt)
      whole == (MINIMUM_SPEED_MS * (dt % 1000)) % 1000 = 0
  IN distance_raw < floor \/ (distance_raw = floor /\ ~whole)

\* distance_max = MAXIMUM_SPEED_MS * (dt / 1000.0)
distance_max_of(dt) == speed_distance(MAXIMUM_SPEED_MS, dt)

\* is_continuous = distance_raw <= distance_max
within_maximum_speed(distance_raw, dt) == distance_raw <= distance_max_of(dt)

\* Variant: the raw distance, not clamped.
distance_unclamped(distance_raw, dt) == distance_raw

\* distance_clamped = min(distance_raw, distance_max)
distance_clamped_of(distance_raw, dt) == Min(distance_raw, distance_max_of(dt))

\* bearing_diff = abs(((bearing - self.last_bearing + 540) % 360) - 180)
bearing_diff_of(bearing, previous) ==
  Abs(((bearing - previous + 540) % 360) - 180)

\* The condition under which a sample is discarded as a bearing discontinuity.
bearing_discontinuity(continuous, distance_clamped, bearing, bearing_before) ==
  /\ bearing_before # None
  /\ continuous
  /\ distance_clamped >= BEARING_CHECK_MINIMUM_DISTANCE_M
  /\ bearing_diff_of(bearing, bearing_before[1]) >= BEARING_CHECK_THRESHOLD_DEGREES

\* What _calculate_distance_traveled returns and leaves in is_continuous and
\* last_bearing, on each of its four paths.  lb and ic are last_bearing and
\* is_continuous as the call finds them.
\* Variant: a distance of 0 instead of None without a last point.
without_last_point_zero(lb, ic) ==
  [distance |-> Some(0), is_continuous |-> ic, last_bearing |-> lb]

\* No last point: distance_clamped stays None, nothing is assigned.
without_last_point(lb, ic) ==
  [distance |-> None, is_continuous |-> ic, last_bearing |-> lb]

\* Variant: the rejection below the minimum speed forgets last_bearing.
too_slow_forgetting_bearing(lb) ==
  [distance |-> None, is_continuous |-> FALSE, last_bearing |-> None]

\* Variant: a distance of 0 instead of None below the minimum speed.
too_slow_zero(lb) ==
  [distance |-> Some(0), is_continuous |-> FALSE, last_bearing |-> lb]

\* distance_raw < distance_min: is_continuous = False; return None
too_slow(lb) ==
  [distance |-> None, is_continuous |-> FALSE, last_bearing |-> lb]

\* Variant: the discontinuity leaves last_bearing as it was.
discontinuous_keeping_bearing(lb) ==
  [distance |-> None, is_continuous |-> FALSE, last_bearing |-> lb]

\* Discontinuity: is_continuous = False; last_bearing = None; return None,
\* whatever last_bearing (lb) was.
discontinuous(lb) ==
  [distance |-> None, is_continuous |-> FALSE, last_bearing |-> None]

\* Otherwise: last_bearing = bearing; return distance_clamped
travelled_distance(distance_clamped, continuous, bearing) ==
  [distance |-> Some(distance_clamped), is_continuous |-> continuous,
   last_bearing |-> Some(bearing)]

\* _calculate_distance_traveled, from last_point (lp), last_bearing (lb) and
\* is_continuous (ic) as it finds them.
calculate_distance_traveled(lp, lb, ic, point, dt) ==
  IF lp = None THEN without_last_point(lb, ic)
  ELSE
    LET distance_raw == haversine_distance_in_meter(lp[1], point)
        continuous == within_maximum_speed(distance_raw, dt)
        distance_clamped == distance_clamped_of(distance_raw, dt)
        bearing == bearing_between_points(lp[1], point)
    IN IF below_minimum_speed(distance_raw, dt) THEN too_slow(lb)
       ELSE IF bearing_discontinuity(continuous, distance_clamped, bearing, lb)
         THEN discontinuous(lb)
         ELSE travelled_distance(distance_clamped, continuous, bearing)

\* ------------------------------------------------ rolling window (_accumulate)
\* A window value w: [segments, index, total_distance, total_energy].
\* A segment is <<distance, energy>> (Python's [0] and [1]).
\* Variant: the room left in a segment taken to be the whole segment.
segment_size_as_remaining(w) == WINDOW_SEGMENT_SIZE_M

segment_remaining_distance_of(w) ==
  WINDOW_SEGMENT_SIZE_M - w.segments[w.index][1]

\* Variant: the whole energy goes to the segment filled first.
energy_share_whole(energy, segment_remaining_distance, distance) == energy

\* energy * ratio, with ratio = segment_remaining_distance / distance
energy_share(energy, segment_remaining_distance, distance) ==
  (energy * segment_remaining_distance) \div distance

\* consumption_window[index][0] += distance; consumption_window[index][1] += energy
add_to_segment(w, distance, energy) ==
  [w EXCEPT !.segments[w.index] = << @[1] + distance, @[2] + energy >>]

\* Variant: the segment subtracted from the totals is the one just filled,
\* not the one evicted.
advance_and_evict_filled(w) ==
  LET next == (w.index + 1) % WINDOW_SEGMENT_COUNT
  IN [segments |-> [w.segments EXCEPT ![next] = << 0, 0 >>],
      index |-> next,
      total_distance |-> w.total_distance - w.segments[w.index][1],
      total_energy |-> w.total_energy - w.segments[w.index][2]]

\* Variant: the evicted segment is reset but not subtracted from the totals.
advance_without_subtracting(w) ==
  LET next == (w.index + 1) % WINDOW_SEGMENT_COUNT
  IN [segments |-> [w.segments EXCEPT ![next] = << 0, 0 >>],
      index |-> next,
      total_distance |-> w.total_distance,
      total_energy |-> w.total_energy]

\* Move to the next segment, subtract it from the totals and reset it.
advance_and_evict(w) ==
  LET next == (w.index + 1) % WINDOW_SEGMENT_COUNT
  IN [segments |-> [w.segments EXCEPT ![next] = << 0, 0 >>],
      index |-> next,
      total_distance |-> w.total_distance - w.segments[next][1],
      total_energy |-> w.total_energy - w.segments[next][2]]

\* Variant: a distance that exactly fills the segment is taken to fit in it.
fits_or_fills_segment(distance, segment_remaining_distance) ==
  distance <= segment_remaining_distance

\* if distance < segment_remaining_distance: fits in the current segment
fits_in_segment(distance, segment_remaining_distance) ==
  distance < segment_remaining_distance

\* The values of the loop's variables: the window and the local distance
\* and energy.
LoopStates ==
  [w : [segments : [0 .. WINDOW_SEGMENT_COUNT - 1 -> Int \X Int],
        index : 0 .. WINDOW_SEGMENT_COUNT - 1,
        total_distance : Int, total_energy : Int],
   distance : Int, energy : Int]

\* One pass through the else branch of the loop: fill up the current segment
\* and move to the next.
fill_and_move(s) ==
  LET segment_remaining_distance == segment_remaining_distance_of(s.w)
      share == energy_share(s.energy, segment_remaining_distance, s.distance)
  IN [w |-> advance_and_evict(add_to_segment(s.w, segment_remaining_distance, share)),
      distance |-> s.distance - segment_remaining_distance,
      energy |-> s.energy - share]

\* The while loop of _accumulate, from the loop's variables to the window it
\* leaves.
accumulate_loop[s \in LoopStates] ==
  IF ~(s.distance > 0) THEN s.w
  ELSE IF fits_in_segment(s.distance, segment_remaining_distance_of(s.w))
    THEN add_to_segment(s.w, s.distance, s.energy)
    ELSE accumulate_loop[fill_and_move(s)]

\* The number of passes of the loop through its else branch, each of which
\* advances consumption_window_index once and resets one segment.
loop_evictions[s \in LoopStates] ==
  IF ~(s.distance > 0) THEN 0
  ELSE IF fits_in_segment(s.distance, segment_remaining_distance_of(s.w))
    THEN 0
    ELSE 1 + loop_evictions[fill_and_move(s)]

\* Variant: the totals are set to the distance and the energy of the call.
set_totals(w, distance, energy) ==
  [w EXCEPT !.total_distance = distance, !.total_energy = energy]

\* The two additions to the totals that open _accumulate.
add_to_totals(w, distance, energy) ==
  [w EXCEPT !.total_distance = @ + distance, !.total_energy = @ + energy]

evictions_of(w, distance, energy) ==
  loop_evictions[[w |-> add_to_totals(w, distance, energy), distance |-> distance, energy |-> energy]]

accumulate(w, distance, energy) ==
  accumulate_loop[[w |-> add_to_totals(w, distance, energy), distance |-> distance, energy |-> energy]]

\* The window held in the variables.
Window ==
  [segments |-> consumption_window,
   index |-> consumption_window_index,
   total_distance |-> consumption_window_total_distance,
   total_energy |-> consumption_window_total_energy]

SetWindow(w) ==
  /\ consumption_window' = w.segments
  /\ consumption_window_index' = w.index
  /\ consumption_window_total_distance' = w.total_distance
  /\ consumption_window_total_energy' = w.total_energy

\* ------------------------------------------------------------- estimator
\* The four values _on_gps_update reads: /UtcTime, /Position/Latitude and
\* /Position/Longitude of the GPS service and /MotorDrive/Power.
CompleteReads ==
  [utc_time : {Some(t) : t \in Times}, latitude : {Some(l) : l \in Latitudes},
   longitude : {Some(l) : l \in Longitudes}, power : {Some(p) : p \in Powers}]

\* Reads that miss a value: one read with each value missing alone (no motor
\* drive, no time, no latitude, no longitude), and one without a GPS service.
ReadAtRest ==
  [utc_time |-> Some(0), latitude |-> Some(0), longitude |-> Some(0),
   power |-> Some(1000)]

MissingReads ==
  {[ReadAtRest EXCEPT !.power = None], [ReadAtRest EXCEPT !.utc_time = None],
   [ReadAtRest EXCEPT !.latitude = None], [ReadAtRest EXCEPT !.longitude = None],
   [utc_time |-> None, latitude |-> None, longitude |-> None, power |-> Some(1000)]}

Reads == CompleteReads \cup MissingReads

\* power is None or point["utc_time"] is None or ... : the reset condition.
missing_input(read) ==
  \/ read.power = None
  \/ read.utc_time = None
  \/ read.latitude = None
  \/ read.longitude = None

\* The point of a read that misses nothing.
point_of(read) ==
  [utc_time |-> read.utc_time[1], latitude |-> read.latitude[1],
   longitude |-> read.longitude[1]]

\* Variant: the time between the two samples without the wraparound.
delta_t_absolute(lp, point) ==
  IF lp # None
    THEN Abs(point.utc_time - lp[1].utc_time)
    ELSE 0

\* dt = (utc_time - last_point.utc_time + 86400000) % 86400000, or 0 without
\* a last point.
delta_t(lp, point) ==
  IF lp # None
    THEN (point.utc_time - lp[1].utc_time + DAY_MS) % DAY_MS
    ELSE 0

\* if distance is not None and energy is not None
should_accumulate(distance, energy) == distance # None /\ energy # None

\* Variant: the reset leaves power_ema as it was.
reset_fields_keeping_ema(f) ==
  [f EXCEPT !.is_continuous = FALSE, !.last_point = None,
            !.last_bearing = None]

\* The estimator fields f after the reset on a missing input.
reset_fields(f) ==
  [f EXCEPT !.is_continuous = FALSE, !.last_point = None,
            !.last_bearing = None, !.power_ema = None]

\* The estimator fields as a record.
Fields ==
  [is_continuous |-> is_continuous, last_point |-> last_point,
   last_bearing |-> last_bearing, power_ema |-> power_ema]

\* _on_gps_update returns the fields and the window it leaves, the
\* arguments of its _accumulate call (None without one) and its dt.
\* Variant: the reset on a missing input empties the window too.
on_missing_input_clearing(f, w) ==
  [fields |-> reset_fields(f),
   window |-> [segments |-> [i \in 0 .. WINDOW_SEGMENT_COUNT - 1 |-> << 0, 0 >>],
               index |-> 0, total_distance |-> 0, total_energy |-> 0],
   accumulated |-> None, dt |-> None]

\* A value is missing: the fields are reset, the window is not touched.
on_missing_input(f, w) ==
  [fields |-> reset_fields(f), window |-> w, accumulated |-> None,
   dt |-> None]

\* Variant: last_point is set only when the sample's distance was returned.
on_complete_sample_keeping_point(f, w, read) ==
  LET point == point_of(read)
      dt == delta_t(f.last_point, point)
      travelled == calculate_distance_traveled(
                     f.last_point, f.last_bearing, f.is_continuous, point, dt)
      used == calculate_energy_used(f.power_ema, read.power[1], dt)
      call == should_accumulate(travelled.distance, used.energy)
  IN [fields |-> [is_continuous |-> travelled.is_continuous,
                  last_point |-> IF call \/ f.last_point = None
                                   THEN Some(point) ELSE f.last_point,
                  last_bearing |-> travelled.last_bearing,
                  power_ema |-> used.power_ema],
      window |-> IF call
                   THEN accumulate(w, travelled.distance[1], used.energy[1])
                   ELSE w,
      accumulated |-> IF call
                        THEN Some(<< travelled.distance[1], used.energy[1] >>)
                        ELSE None,
      dt |-> Some(dt)]

\* No value is missing: dt, distance, energy, _accumulate, last_point = point.
on_complete_sample(f, w, read) ==
  LET point == point_of(read)
      dt == delta_t(f.last_point, point)
      travelled == calculate_distance_traveled(
                     f.last_point, f.last_bearing, f.is_continuous, point, dt)
      used == calculate_energy_used(f.power_ema, read.power[1], dt)
      call == should_accumulate(travelled.distance, used.energy)
  IN [fields |-> [is_continuous |-> travelled.is_continuous,
                  last_point |-> Some(point),
                  last_bearing |-> travelled.last_bearing,
                  power_ema |-> used.power_ema],
      window |-> IF call
                   THEN accumulate(w, travelled.distance[1], used.energy[1])
                   ELSE w,
      accumulated |-> IF call
                        THEN Some(<< travelled.distance[1], used.energy[1] >>)
                        ELSE None,
      dt |-> Some(dt)]

\* _on_gps_update on a read.
on_gps_update(f, w, read) ==
  IF missing_input(read)
    THEN on_missing_input(f, w)
    ELSE on_complete_sample(f, w, read)

\* Variant: energy per metre, the division by 1000 left out.
update_values_per_metre(w) ==
  IF w.total_distance > 0
    THEN Some((w.total_energy) \div (36 * w.total_distance))
    ELSE None

\* update_values: the /MotorDrive/Consumption it puts into newvalues (None:
\* no entry).  Wh/km = (J / 3600) / (cm / 100 / 1000) = J * 250 / (9 * cm).
update_values(w) ==
  IF w.total_distance > 0
    THEN Some((w.total_energy * 250) \div (9 * w.total_distance))
    ELSE None

\* What an update did with its sample, from the fields f it found, the read
\* and the _accumulate call it made:
\*   "reset"     a value was missing
\*   "first"     no last point to measure from
\*   "slow"      discarded, the raw distance being below the minimum speed
\*   "bearing"   discarded, for another reason: the bearing discontinuity
\*   "clamped"   accumulated, less than the raw distance
\*   "accepted"  accumulated, the raw distance
Outcome(f, read, call) ==
  IF missing_input(read) THEN "reset"
  ELSE IF f.last_point = None THEN "first"
  ELSE
    LET point == point_of(read)
        raw == haversine_distance_in_meter(f.last_point[1], point)
        dt == delta_t(f.last_point, point)
    IN IF call # None
         THEN IF call[1][1] < raw THEN "clamped" ELSE "accepted"
         ELSE IF below_minimum_speed(raw, dt) THEN "slow" ELSE "bearing"

\* ---------------------------------------------------------------- actions
Init ==
  /\ last_point = None
  /\ last_bearing = None
  /\ is_continuous = FALSE
  /\ power_ema = None
  /\ consumption_window = [i \in 0 .. WINDOW_SEGMENT_COUNT - 1 |-> << 0, 0 >>]
  /\ consumption_window_index = 0
  /\ consumption_window_total_distance = 0
  /\ consumption_window_total_energy = 0
  /\ newvalues = None
  /\ updates = 0
  /\ sample = None
  /\ dt_ms = None
  /\ outcome = "none"
  /\ previous_outcome = "none"
  /\ accumulated = None
  /\ calls = 0
  /\ dbus = [utc_time |-> None, latitude |-> None, longitude |-> None,
             power |-> None]
  /\ idle_pending = 0
  /\ writing = [number |-> 1, written |-> {}]

\* _on_gps_update runs on a read: what it leaves in the estimator and the
\* window, and what is recorded of it.
Process(read) ==
  /\ \E r \in {on_gps_update(Fields, Window, read)} :
       /\ is_continuous' = r.fields.is_continuous
       /\ last_point' = r.fields.last_point
       /\ last_bearing' = r.fields.last_bearing
       /\ power_ema' = r.fields.power_ema
       /\ SetWindow(r.window)
       /\ sample' = Some(read)
       /\ dt_ms' = r.dt
       /\ outcome' = Outcome(Fields, read, r.accumulated)
       /\ accumulated' = r.accumulated
  /\ previous_outcome' = outcome
  /\ updates' = updates + 1

\* The idle callback _on_gps_update runs on what the d-bus holds.
OnGpsUpdate ==
  /\ updates < MaxUpdates
  /\ \E read \in Reads : Process(read)
  /\ UNCHANGED << newvalues, calls, bus >>

\* The host's refresh calls update_values.
UpdateValues ==
  /\ newvalues' = update_values(Window)
  /\ UNCHANGED << estimator, window, history, bus >>

Next == OnGpsUpdate \/ UpdateValues

Spec == Init /\ [][Next]_vars

\* _accumulate called on its own, with any arguments of its contract
\* (distance >= 0).
CallDistances == {0, 1000, 3700, 200000}
CallEnergies == {0, 600, 100000}

AccumulateCall ==
  /\ calls < MaxCalls
  /\ \E distance \in CallDistances, energy \in CallEnergies :
       /\ SetWindow(accumulate(Window, distance, energy))
       /\ accumulated' = Some(<< distance, energy >>)
  /\ calls' = calls + 1
  /\ UNCHANGED << estimator, newvalues, updates, sample, dt_ms, outcome,
                  previous_outcome, bus >>

NextAccumulate == AccumulateCall \/ UpdateValues

SpecAccumulate == Init /\ [][NextAccumulate]_vars

\* Updates at times of day around midnight, at one place and one power: the
\* dt of _on_gps_update over pairs of timestamps.
MaxClockUpdates == 2
StampTimes ==
  {0, 1, 50, 150, 1000, 43200000, 86398000, 86399000, 86399850, 86399900,
   86399999}

ClockRead(t) ==
  [utc_time |-> Some(t), latitude |-> Some(0), longitude |-> Some(0),
   power |-> Some(1000)]

OnClockUpdate ==
  /\ updates < MaxClockUpdates
  /\ \E t \in StampTimes : Process(ClockRead(t))
  /\ UNCHANGED << newvalues, calls, bus >>

NextClock == OnClockUpdate

SpecClock == Init /\ [][NextClock]_vars

\* A baseline sample and then equal steps northwards: each step the same
\* distance (cm) further, the same time (ms) later, at the same power (W), as
\* simulate_steps feeds them.  The steps are within the speed bounds, and
\* their energy per centimetre is a whole number of joules, so that every
\* share of a step's energy is exact.
MaxSteadyUpdates == 4
SteadyDistances == {1000, 2000, 10000, 60000, 95000, 100000, 190000}
SteadyDurations == {1000, 60000, 100000}
SteadyPowers == {1000, 1900, 2000}

SteadySteps ==
  {st \in [distance : SteadyDistances, duration : SteadyDurations,
           power : SteadyPowers] :
     /\ ~below_minimum_speed(st.distance, st.duration)
     /\ within_maximum_speed(st.distance, st.duration)
     /\ (st.power * st.duration) % (1000 * st.distance) = 0}

\* The read of the next sample of the run made of steps st.
SteadyRead(st) ==
  IF last_point = None
    THEN [utc_time |-> Some(0), latitude |-> Some(0), longitude |-> Some(0),
          power |-> Some(st.power)]
    ELSE [utc_time |-> Some(last_point[1].utc_time + st.duration),
          latitude |-> Some(last_point[1].latitude + st.distance),
          longitude |-> Some(0), power |-> Some(st.power)]

\* st continues the run: the power of the sample before, and from the second
\* step on the distance and the duration of the step before.
ContinuesRun(st) ==
  /\ updates >= 1 => st.power = sample[1].power[1]
  /\ updates >= 2 =>
        /\ st.duration * (updates - 1) = last_point[1].utc_time
        /\ st.distance * (updates - 1) = last_point[1].latitude

OnSteadyUpdate ==
  /\ updates < MaxSteadyUpdates
  /\ \E st \in SteadySteps :
       /\ ContinuesRun(st)
       /\ Process(SteadyRead(st))
  /\ UNCHANGED << newvalues, calls, bus >>

NextSteady == OnSteadyUpdate \/ UpdateValues

SpecSteady == Init /\ [][NextSteady]_vars

\* The d-bus and the run loop.  The sources write the values of sample
\* number k to the d-bus one at a time, in any order; the change of /UtcTime
\* calls _on_gps_update_deferred, which adds _on_gps_update to the run
\* loop's idle callbacks; the run loop runs a pending callback when it is
\* idle, which may be before or after the other values have been written.
MaxSamples == 2
SampleFields == {"utc_time", "latitude", "longitude", "power"}

\* The values of sample number k: 10 m further north every second.
SampleValues(k) ==
  [utc_time |-> Some(1000 * k), latitude |-> Some(1000 * k),
   longitude |-> Some(0), power |-> Some(1000 * k)]

\* The sample being written: the next one once all values of the current
\* one are written.
CurrentWriting ==
  IF writing.written = SampleFields
    THEN [number |-> writing.number + 1, written |-> {}]
    ELSE writing

\* _on_gps_update_deferred: GLib.idle_add(self._on_gps_update, *args)
on_gps_update_deferred(pending) == pending + 1

\* A source writes one value; a change of /UtcTime calls the handler.
WriteValue ==
  /\ CurrentWriting.number <= MaxSamples
  /\ \E field \in SampleFields \ CurrentWriting.written :
       /\ dbus' = [dbus EXCEPT ![field] = SampleValues(CurrentWriting.number)[field]]
       /\ writing' = [number |-> CurrentWriting.number,
                      written |-> CurrentWriting.written \cup {field}]
       /\ idle_pending' = IF field = "utc_time"
                            THEN on_gps_update_deferred(idle_pending)
                            ELSE idle_pending
  /\ UNCHANGED << estimator, window, newvalues, history >>

\* The run loop is idle and runs one pending _on_gps_update, which reads the
\* four values the d-bus holds and returns False: it is not run again.
IdleRun ==
  /\ idle_pending > 0
  /\ Process(dbus)
  /\ idle_pending' = idle_pending - 1
  /\ UNCHANGED << newvalues, calls, dbus, writing >>

NextDeferred == WriteValue \/ IdleRun

SpecDeferred == Init /\ [][NextDeferred]_vars

\* ================================================================ claims
\* Sum of one field (1: distance, 2: energy) over the first n segments.
RECURSIVE SegmentSum(_, _)
SegmentSum(field, n) ==
  IF n = 0 THEN 0
  ELSE consumption_window[n - 1][field] + SegmentSum(field, n - 1)

WindowLength == WINDOW_SEGMENT_COUNT * WINDOW_SEGMENT_SIZE_M

\* A step that processes one GPS update.
UpdateStep == updates' = updates + 1

\* The read of the update just processed, after an update step.
NewRead == sample'[1]

AnyAbsent(read) ==
  \/ read.power = None \/ read.utc_time = None
  \/ read.latitude = None \/ read.longitude = None

\* An update step on a complete sample with last_point known, and what the
\* continuity filter measures on it, from last_point to the sample:
\* elapsed time, raw distance, speed limits and bearing change.
MeasuredStep == UpdateStep /\ ~AnyAbsent(NewRead) /\ last_point # None
StepDt == (NewRead.utc_time[1] - last_point[1].utc_time + DAY_MS) % DAY_MS
StepRaw == Abs(NewRead.latitude[1] - last_point[1].latitude)
StepMax == speed_distance(MAXIMUM_SPEED_MS, StepDt)
StepBearing == IF NewRead.latitude[1] < last_point[1].latitude THEN 180 ELSE 0
StepSlow == below_minimum_speed(StepRaw, StepDt)
StepTurn ==
  /\ ~StepSlow
  /\ last_bearing # None
  /\ StepRaw <= StepMax
  /\ StepRaw >= BEARING_CHECK_MINIMUM_DISTANCE_M
  /\ Abs(((StepBearing - last_bearing[1] + 540) % 360) - 180)
       >= BEARING_CHECK_THRESHOLD_DEGREES

\* C1: after every processed update, consumption_window_total_distance is
\* the sum of the distances of all 50 segments.
C1_TotalDistanceIsSum ==
  consumption_window_total_distance = SegmentSum(1, WINDOW_SEGMENT_COUNT)

\* A reset that follows a clamped sample, with segments evicted before it.
C1_Witness ==
  /\ previous_outcome = "clamped"
  /\ outcome = "reset"
  /\ consumption_window_index > 0
  /\ consumption_window_total_distance > 0

\* C2: when accumulate(distance, energy) returns, for any distance >= 0,
\* consumption_window_total_energy is the sum of the energies of all 50
\* segments.
C2_TotalEnergyIsSum ==
  consumption_window_total_energy = SegmentSum(2, WINDOW_SEGMENT_COUNT)

\* C3: every segment holds a distance between 0 and WINDOW_SEGMENT_SIZE_M,
\* and the write index is within the ring.
C3_SegmentsWithinSize ==
  /\ \A i \in 0 .. WINDOW_SEGMENT_COUNT - 1 :
       /\ 0 <= consumption_window[i][1]
       /\ consumption_window[i][1] <= WINDOW_SEGMENT_SIZE_M
  /\ consumption_window_index \in 0 .. WINDOW_SEGMENT_COUNT - 1

\* A full segment behind the write index and a partly filled one under it.
C3_Witness ==
  /\ consumption_window_index > 0
  /\ consumption_window[consumption_window_index - 1][1] = WINDOW_SEGMENT_SIZE_M
  /\ consumption_window[consumption_window_index][1] > 0
  /\ consumption_window[consumption_window_index][1] < WINDOW_SEGMENT_SIZE_M

\* C4: the total distance never exceeds 50 x 37 m, also after a single
\* movement longer than the whole window.
C4_TotalWithinWindow == consumption_window_total_distance <= WindowLength

\* One _accumulate call with more than the window's length.
C4_Witness ==
  /\ accumulated # None
  /\ accumulated[1][1] > WindowLength
  /\ consumption_window_total_distance > 0

\* C5: a refresh publishes total_energy / (total_distance / 1000) exactly
\* when total_distance > 0, and nothing otherwise; while no distance has been
\* accumulated nothing is published.  The value v is the quotient rounded
\* down: v <= 250 * J / (9 * cm) < v + 1.
Published(v) ==
  IF consumption_window_total_distance > 0
    THEN /\ v # None
         /\ 9 * consumption_window_total_distance * v[1]
              <= 250 * consumption_window_total_energy
         /\ 250 * consumption_window_total_energy
              < 9 * consumption_window_total_distance * (v[1] + 1)
    ELSE v = None

C5_PublishesWhenMoved ==
  [][ /\ (updates' = updates /\ calls' = calls) => Published(newvalues')
      /\ consumption_window_total_distance' = 0 => newvalues' = None ]_vars

\* A value has been published.
C5_Witness ==
  /\ newvalues # None
  /\ newvalues[1] > 0
  /\ consumption_window_total_distance > 0

\* C6: an update with power, utc_time, latitude or longitude absent leaves
\* last_point, last_bearing and power_ema None and is_continuous false, and
\* leaves the window as it was.
C6_MissingInputResets ==
  [][ (UpdateStep /\ AnyAbsent(NewRead)) =>
        /\ last_point' = None
        /\ last_bearing' = None
        /\ power_ema' = None
        /\ is_continuous' = FALSE
        /\ window' = window ]_vars

\* The power alone is missing, after an accepted sample, the window not empty.
C6_Witness ==
  /\ outcome = "reset"
  /\ previous_outcome = "accepted"
  /\ sample[1].power = None
  /\ sample[1].utc_time # None
  /\ sample[1].latitude # None
  /\ sample[1].longitude # None
  /\ last_point = None
  /\ power_ema = None
  /\ consumption_window_total_distance > 0

\* C7: the first complete sample after startup or a reset is processed with
\* dt = 0 and leaves the window as it was: nothing is accumulated, power_ema
\* is the raw power, last_bearing stays None, last_point is the sample.
C7_FirstSampleOnlyBaseline ==
  [][ (UpdateStep /\ ~AnyAbsent(NewRead) /\ last_point = None) =>
        /\ dt_ms' = Some(0)
        /\ accumulated' = None
        /\ window' = window
        /\ power_ema' = NewRead.power
        /\ last_bearing' = None
        /\ last_point' = Some([utc_time |-> NewRead.utc_time[1],
                               latitude |-> NewRead.latitude[1],
                               longitude |-> NewRead.longitude[1]]) ]_vars

\* A first sample after a reset, the window not empty.
C7_Witness ==
  /\ outcome = "first"
  /\ previous_outcome = "reset"
  /\ consumption_window_total_distance > 0
  /\ last_point # None
  /\ power_ema = sample[1].power

\* C8: a complete sample whose distance is rejected (below the minimum speed,
\* or a bearing discontinuity) leaves the window as it was, and the power
\* smoother still runs on it; _accumulate is called exactly when the
\* continuity filter returned a distance.
C8_RejectedKeepsWindow ==
  [][ /\ (MeasuredStep /\ (StepSlow \/ StepTurn)) =>
           /\ window' = window
           /\ power_ema' = Some(smoothed_power(power_ema, NewRead.power[1], StepDt))
      /\ UpdateStep =>
           (accumulated' # None <=> (MeasuredStep /\ ~StepSlow /\ ~StepTurn)) ]_vars

\* A sample 1 s after the last and too slow, whose 2000 W moved the
\* smoothed power from 1000 W to 1283 W; the window is not empty.
C8_Witness ==
  /\ outcome = "slow"
  /\ dt_ms = Some(1000)
  /\ sample[1].power = Some(2000)
  /\ power_ema = Some(1283)
  /\ accumulated = None
  /\ consumption_window_total_distance > 0

\* C9: a complete sample whose raw distance exceeds MAXIMUM_SPEED_MS x dt /
\* 1000 is not discarded: exactly that maximum is accumulated, whatever the
\* bearing change; and no update accumulates more than the maximum.
C9_ClampedNotDiscarded ==
  [][ /\ (MeasuredStep /\ StepRaw > StepMax) =>
           (accumulated' # None /\ accumulated'[1][1] = StepMax)
      /\ (MeasuredStep /\ accumulated' # None) => accumulated'[1][1] <= StepMax ]_vars

\* A sample clamped to 20 m on the way back south from 1900 m, where the
\* sample before, clamped too, had arrived northwards.
C9_Witness ==
  /\ outcome = "clamped"
  /\ previous_outcome = "clamped"
  /\ accumulated # None
  /\ accumulated[1][1] = 2000
  /\ sample[1].latitude = Some(0)
  /\ last_bearing = Some(180)

\* C10: a sample rejected for bearing discontinuity leaves last_bearing None,
\* and the update that follows it is never such a rejection.
C10_NoTwoBearingRejections ==
  [][ /\ (MeasuredStep /\ StepTurn) =>
           (accumulated' = None /\ last_bearing' = None)
      /\ (UpdateStep /\ outcome = "bearing") => outcome' # "bearing" ]_vars

\* A sample accepted right after a bearing rejection, 1900 m away.
C10_Witness ==
  /\ previous_outcome = "bearing"
  /\ outcome = "accepted"
  /\ accumulated # None
  /\ accumulated[1][1] > WINDOW_SEGMENT_SIZE_M
  /\ last_bearing # None

\* C11: after every update that read all four values, last_point is the
\* point just read, whether the distance was accepted, clamped or rejected
\* (too slow, bearing discontinuity); so the dt of the next update is
\* measured from the point processed last.
C11_LastPointAlwaysAdvanced ==
  [][ /\ (UpdateStep /\ ~AnyAbsent(NewRead)) =>
           /\ last_point' # None
           /\ last_point'[1].utc_time = NewRead.utc_time[1]
           /\ last_point'[1].latitude = NewRead.latitude[1]
           /\ last_point'[1].longitude = NewRead.longitude[1]
      /\ (MeasuredStep /\ sample # None /\ ~AnyAbsent(sample[1])) =>
           dt_ms' = Some((NewRead.utc_time[1] - sample[1].utc_time[1] + DAY_MS)
                           % DAY_MS) ]_vars

\* A sample at another place than the one before, rejected for its bearing,
\* has become last_point.
C11_Witness ==
  /\ outcome = "bearing"
  /\ previous_outcome = "accepted"
  /\ last_point # None
  /\ last_point[1].latitude = sample[1].latitude[1]
  /\ last_point[1].utc_time = sample[1].utc_time[1]
  /\ accumulated = None

\* C12: for timestamps prev and curr within the day, dt lies in
\* [0, 86400000) and is the time elapsed from prev forward to curr, across
\* midnight when curr is the smaller (prev = 86399900, curr = 50: 150).
Elapsed(prev, curr) ==
  IF curr >= prev THEN curr - prev ELSE (DAY_MS - prev) + curr

C12_DtWrapsAtMidnight ==
  [][ MeasuredStep =>
        /\ dt_ms' # None
        /\ 0 <= dt_ms'[1]
        /\ dt_ms'[1] < DAY_MS
        /\ dt_ms'[1] = Elapsed(last_point[1].utc_time, NewRead.utc_time[1]) ]_vars

\* A sample at 50 ms, after one 100 ms before midnight.
C12_Witness ==
  /\ updates = 2
  /\ sample[1].utc_time = Some(50)
  /\ dt_ms = Some(150)
  /\ last_point # None
  /\ last_point[1].utc_time = 50

\* C13: from an empty window, a baseline sample and then N >= 1 accepted
\* steps of the same distance d, duration t and power p publish
\* p * (t / 1000) / 3600 / (d / 1000) Wh/km for every N, however the steps
\* are split over segments and whatever was evicted; 100 m in 60 s at 1000 W
\* give 166.67 Wh/km (166 rounded down).
RunDistance == last_point[1].latitude \div (updates - 1)
RunDuration == last_point[1].utc_time \div (updates - 1)
RunPower == sample[1].power[1]
RunValue == (250 * ((RunPower * RunDuration) \div 1000)) \div (9 * RunDistance)

C13_SteadyStateConsumption ==
  [][ (updates >= 2 /\ updates' = updates) =>
        /\ outcome = "accepted"
        /\ newvalues' = Some(RunValue)
        /\ (RunDistance = 10000 /\ RunDuration = 60000 /\ RunPower = 1000)
             => newvalues' = Some(166) ]_vars

\* Published after two steps of 1900 m, of which the window holds less than
\* one: 190000 J over 1900 m, 27.7 Wh/km.
C13_Witness ==
  /\ updates = 3
  /\ last_point # None
  /\ last_point[1].latitude = 380000
  /\ consumption_window_total_distance < 190000
  /\ newvalues = Some(27)

\* C14: after an update with a missing value, the published output is "no
\* value", until distance is accumulated again.
C14_NoValueAfterReset ==
  [][ (outcome = "reset" /\ updates' = updates /\ calls' = calls) =>
        newvalues' = None ]_vars

\* C14, amended: an update with a missing value leaves the output what it
\* was: the refresh after it publishes the Wh/km of the window as it was
\* before the update, and "no value" only if the window holds no distance.
RefreshOutput ==
  IF consumption_window_total_distance > 0
    THEN Some((250 * consumption_window_total_energy)
                \div (9 * consumption_window_total_distance))
    ELSE None

C14_ResetKeepsOutput ==
  [][ /\ (UpdateStep /\ AnyAbsent(NewRead)) => RefreshOutput' = RefreshOutput
      /\ (outcome = "reset" /\ updates' = updates /\ calls' = calls) =>
           /\ newvalues' = RefreshOutput
           /\ newvalues' = None <=> consumption_window_total_distance = 0 ]_vars

\* A value is published while the last update was a reset.
C14_Witness ==
  /\ outcome = "reset"
  /\ last_point = None
  /\ consumption_window_total_distance > 0
  /\ newvalues # None
  /\ newvalues = RefreshOutput

\* C15: whenever last_point is known, the update stores the bearing from
\* last_point to the sample as the new last_bearing, also when the sample is
\* rejected for being below the minimum speed.
C15_BearingAlwaysStored ==
  [][ MeasuredStep => last_bearing' = Some(StepBearing) ]_vars

\* C15, amended: with last_point known, the bearing to the sample becomes
\* last_bearing only when a distance is returned (accepted or clamped); a
\* sample below the minimum speed leaves last_bearing as it was, and a
\* bearing discontinuity leaves it None.
C15_BearingStoredWithDistance ==
  [][ MeasuredStep =>
        /\ StepSlow => last_bearing' = last_bearing
        /\ StepTurn => last_bearing' = None
        /\ (~StepSlow /\ ~StepTurn) =>
             (accumulated' # None /\ last_bearing' = Some(StepBearing)) ]_vars

\* A sample below the minimum speed, after a step southwards: last_bearing
\* is still that of the step, not the bearing to the sample.
C15_Witness ==
  /\ outcome = "slow"
  /\ previous_outcome = "accepted"
  /\ last_bearing = Some(180)
  /\ sample[1].latitude = Some(0)
  /\ last_point # None

\* C16: whenever a complete sample is processed with dt exactly 0, power_ema
\* is the raw power after the update, whether or not there was a power_ema
\* before, and the energy increment is 0.
ZeroDtStep ==
  /\ UpdateStep
  /\ ~AnyAbsent(NewRead)
  /\ last_point # None => NewRead.utc_time[1] = last_point[1].utc_time

C16_ZeroDtResetsEma ==
  [][ ZeroDtStep =>
        /\ power_ema' = NewRead.power
        /\ accumulated' # None => accumulated'[1][2] = 0 ]_vars

\* C16, amended: with dt exactly 0, power_ema is the raw power only if there
\* was no power_ema before (first sample after startup or a reset); an
\* existing power_ema is left as it was (alpha = 0).  The energy increment is
\* 0 in both cases, and the window's energy is unchanged.
C16_ZeroDtKeepsEma ==
  [][ ZeroDtStep =>
        /\ dt_ms' = Some(0)
        /\ power_ema = None => power_ema' = NewRead.power
        /\ power_ema # None => power_ema' = power_ema
        /\ accumulated' # None => accumulated'[1][2] = 0
        /\ consumption_window_total_energy' = consumption_window_total_energy ]_vars

\* A sample with the timestamp of the one before and another power: the
\* smoothed power is still that of the one before.
C16_Witness ==
  /\ updates >= 2
  /\ dt_ms = Some(0)
  /\ sample[1].power = Some(2000)
  /\ power_ema = Some(1000)
  /\ accumulated = Some(<< 0, 0 >>)

\* C17: the /UtcTime change handler reads nothing and changes no estimator
\* state, it only schedules the update; the deferred update reads the four
\* values in one step; and the point it processes consists of the four
\* values of one logical sample, never of a new utc_time with the position
\* or power of the sample before.
OneLogicalSample(read) == \E k \in 1 .. MaxSamples + 1 : read = SampleValues(k)

C17_ReadsOneLogicalSample ==
  [][ /\ idle_pending' = idle_pending + 1 =>
           /\ estimator' = estimator
           /\ window' = window
           /\ updates' = updates
      /\ UpdateStep => sample' = Some(dbus)
      /\ (UpdateStep /\ ~AnyAbsent(NewRead)) => OneLogicalSample(NewRead) ]_vars

\* C18: every call accumulate(d, e) with d >= 0 terminates, and advances
\* the write index (resetting one segment each time) exactly
\* floor((distance in the current segment before the call + d) / 37) times:
\* once per segment boundary crossed, not at all when d fits strictly inside
\* the current segment.
BoundariesCrossed(distance) ==
  (consumption_window[consumption_window_index][1] + distance)
    \div WINDOW_SEGMENT_SIZE_M

C18_OneEvictionPerBoundary ==
  [][ calls' = calls + 1 =>
        /\ evictions_of(Window, accumulated'[1][1], accumulated'[1][2])
             = BoundariesCrossed(accumulated'[1][1])
        /\ consumption_window_index'
             = (consumption_window_index + BoundariesCrossed(accumulated'[1][1]))
                 % WINDOW_SEGMENT_COUNT
        /\ accumulated'[1][1]
             < WINDOW_SEGMENT_SIZE_M - consumption_window[consumption_window_index][1]
             => consumption_window_index' = consumption_window_index ]_vars

\* A call with the 37 m that exactly fill the empty first segment has moved
\* on to the second.
C18_Witness ==
  /\ calls = 1
  /\ accumulated # None
  /\ accumulated[1][1] = WINDOW_SEGMENT_SIZE_M
  /\ consumption_window[0][1] = WINDOW_SEGMENT_SIZE_M
  /\ consumption_window_index = 1

\* C19: once the total distance is > 0 it stays > 0, whatever updates
\* follow (accumulations with evictions, rejections, resets); so once a
\* value has been published, every later refresh publishes a value.
C19_WindowNeverEmptiesAgain ==
  [][ /\ consumption_window_total_distance > 0
           => consumption_window_total_distance' > 0
      /\ (newvalues # None /\ updates' = updates /\ calls' = calls)
           => newvalues' # None ]_vars

\* After 1900 m in one step, of which the window kept less, and a sample
\* rejected as too slow, a value is published.
C19_Witness ==
  /\ outcome = "slow"
  /\ previous_outcome = "accepted"
  /\ last_point # None
  /\ last_point[1].latitude = 190000
  /\ consumption_window_total_distance > 0
  /\ consumption_window_total_distance < 190000
  /\ newvalues # None

\* C20: processing a sample again is idempotent: an update whose utc_time,
\* latitude, longitude and power are those of the complete sample processed
\* just before it (dt = 0, distance 0) leaves the window, power_ema,
\* last_point and last_bearing as they were.
RedeliveredStep ==
  /\ UpdateStep
  /\ sample # None
  /\ ~AnyAbsent(sample[1])
  /\ NewRead = sample[1]

C20_RedeliveryIsIdempotent ==
  [][ RedeliveredStep =>
        /\ window' = window
        /\ power_ema' = power_ema
        /\ last_point' = last_point
        /\ last_bearing' = last_bearing ]_vars

====
